---- MODULE Spec2Model ----
(***************************************************************************)
(* Minecraft Plugin Manager backend: the sandboxed file service of         *)
(* app/main.py (safe_path, list_files, upload_file, create_folder,         *)
(* delete_item) and the Unraid container client of app/unraid.py.          *)
(*                                                                         *)
(* Strings are sequences of one-character strings, a file name is a string *)
(* without "/", and an absolute filesystem path is a sequence of names     *)
(* (<<>> is "/").  The filesystem is a function from the existing paths to *)
(* their entries: directories, regular files and symbolic links.           *)
(***************************************************************************)
EXTENDS Integers, Sequences, FiniteSets, TLC

VARIABLES
    fs,        \* the filesystem
    before,    \* the filesystem as the request last handled found it
    resp,      \* the file service's response to the request it last handled
    call,      \* the container client's operation in progress
    pc,        \* the remote call that operation is about to make
    log,       \* the remote calls the operation has made, in order
    mutation,  \* how the operation's latest mutation call ended
    read,      \* what the operation's latest status read received
    stopped,   \* within restart: what stop_container returned
    ret        \* what the operation returned or raised

fvars == <<fs, before, resp>>
cvars == <<call, pc, log, mutation, read, stopped, ret>>
vars == <<fs, before, resp, call, pc, log, mutation, read, stopped, ret>>

-----------------------------------------------------------------------------
(* Bounds of the model. *)

\* Longest `path` query parameter.
MaxPathLen == 3
\* Longest upload filename / folder name parameter.
MaxNameLen == 2
\* Most entries below the plugins root (the volume's capacity).
MaxEntries == 2

\* The characters requests are written in.
Chars == {"/", ".", "a", "A"}

Strings(n) == UNION {[1..k -> Chars] : k \in 0..n}

PathInputs == Strings(MaxPathLen)
NameInputs == Strings(MaxNameLen)
\* Uploaded bodies: the empty file and a one-byte file.
Contents == {<<>>, <<1>>}

-----------------------------------------------------------------------------
(* Strings. *)

\* Code points, for Python's ordering of str.
Ord(c) == CASE c = "." -> 46 [] c = "/" -> 47 [] c = "A" -> 65 [] c = "a" -> 97

\* str.lower() on one character.
LowerChar(c) == IF c = "A" THEN "a" ELSE c

\* str.lower()
Lower(s) == [i \in 1..Len(s) |-> LowerChar(s[i])]

\* Python's s < t on str: lexicographic by code point.
RECURSIVE StrLess(_, _)
StrLess(s, t) ==
    IF t = <<>> THEN FALSE
    ELSE IF s = <<>> THEN TRUE
    ELSE IF Ord(Head(s)) # Ord(Head(t)) THEN Ord(Head(s)) < Ord(Head(t))
    ELSE StrLess(Tail(s), Tail(t))

\* str.lstrip("/")
RECURSIVE LStrip(_)
LStrip(s) == IF s # <<>> /\ Head(s) = "/" THEN LStrip(Tail(s)) ELSE s

\* str.split("/"): the segments between separators, empty ones included.
RECURSIVE Split(_, _)
Split(s, cur) ==
    IF s = <<>> THEN <<cur>>
    ELSE IF Head(s) = "/" THEN <<cur>> \o Split(Tail(s), <<>>)
    ELSE Split(Tail(s), Append(cur, Head(s)))

\* pathlib's parsing of a relative or absolute POSIX path into its parts:
\* empty and "." segments are dropped, ".." is kept.
Parts(s) == SelectSeq(Split(s, <<>>), LAMBDA seg : seg # <<>> /\ seg # <<".">>)

\* PurePath.name: the final part, "" when there is none.
PathName(s) == IF Parts(s) = <<>> THEN <<>> ELSE Parts(s)[Len(Parts(s))]

\* "/".join(parts)
RECURSIVE Join(_)
Join(parts) ==
    IF parts = <<>> THEN <<>>
    ELSE IF Len(parts) = 1 THEN parts[1]
    ELSE parts[1] \o <<"/">> \o Join(Tail(parts))

-----------------------------------------------------------------------------
(* The filesystem. *)

Dir == [kind |-> "dir", data |-> <<>>, to |-> <<>>]
File(d) == [kind |-> "file", data |-> d, to |-> <<>>]
Link(t) == [kind |-> "link", data |-> <<>>, to |-> t]

Parent(p) == SubSeq(p, 1, Len(p) - 1)

IsPrefix(r, p) == Len(r) <= Len(p) /\ SubSeq(p, 1, Len(r)) = r

\* The configured root, /a, resolved at start-up.
PLUGINS_PATH == << <<"a">> >>

\* A directory beside the root that the service must never touch, /A.
OutsidePath == << <<"A">> >>
Secret == <<0, 0>>

RemovePath(f, p) == [q \in DOMAIN f \ {p} |-> f[q]]
PutPath(f, p, e) == [q \in DOMAIN f \cup {p} |-> IF q = p THEN e ELSE f[q]]

Children(f, d) == {q \in DOMAIN f : q # <<>> /\ Parent(q) = d}

\* os.path.realpath(strict=False) of the path that starts at the resolved
\* directory `cur` and continues with the parts `rest`: "." and ".." collapse,
\* symbolic links are followed, missing components are kept as written.
RECURSIVE RealPath(_, _, _)
RealPath(f, cur, rest) ==
    IF rest = <<>> THEN cur
    ELSE LET c == Head(rest)
             next == Append(cur, c)
         IN  IF c = <<".", ".">> THEN RealPath(f, Parent(cur), Tail(rest))
             ELSE IF next \in DOMAIN f /\ f[next].kind = "link"
                  THEN RealPath(f, <<>>, f[next].to \o Tail(rest))
             ELSE RealPath(f, next, Tail(rest))

\* Path.resolve() of an absolute path.
Resolve(f, p) == RealPath(f, <<>>, p)

\* Path.exists(), Path.is_dir(), Path.is_file(): all follow symbolic links.
Exists(f, p) == Resolve(f, p) \in DOMAIN f
IsDir(f, p) == Exists(f, p) /\ f[Resolve(f, p)].kind = "dir"
IsFile(f, p) == Exists(f, p) /\ f[Resolve(f, p)].kind = "file"

-----------------------------------------------------------------------------
(* Responses. *)

NoBody == [kind |-> "none"]

NoResponse == [op |-> "none", code |-> 0, detail |-> "", body |-> NoBody]

\* raise HTTPException(status_code=code, detail=detail)
HTTPError(op, code, detail) ==
    [op |-> op, code |-> code, detail |-> detail, body |-> NoBody]

OK(op, body) == [op |-> op, code |-> 200, detail |-> "", body |-> body]

-----------------------------------------------------------------------------
(* safe_path *)

\* Path.relative_to(root): the parts below root, or ValueError.
RelativeTo(p, root) ==
    IF IsPrefix(root, p)
    THEN [ok |-> TRUE, parts |-> SubSeq(p, Len(root) + 1, Len(p))]
    ELSE [ok |-> FALSE, parts |-> <<>>]

\* The containment test made on the joined path as written, before "..",
\* "." and symbolic links are resolved.
safe_path_unresolved(f, subpath) ==
    IF subpath = <<>> THEN [ok |-> TRUE, path |-> PLUGINS_PATH, code |-> 200, detail |-> ""]
    ELSE LET clean_path == LStrip(subpath)
             joined == PLUGINS_PATH \o Parts(clean_path)
         IN  IF RelativeTo(joined, PLUGINS_PATH).ok
             THEN [ok |-> TRUE, path |-> Resolve(f, joined), code |-> 200, detail |-> ""]
             ELSE [ok |-> FALSE, path |-> <<>>, code |-> 400, detail |-> "Invalid path"]

\* Returns the validated path, or raises HTTPException(400, "Invalid path").
safe_path(f, subpath) ==
    IF subpath = <<>> THEN [ok |-> TRUE, path |-> PLUGINS_PATH, code |-> 200, detail |-> ""]
    ELSE LET clean_path == LStrip(subpath)
             target == Resolve(f, PLUGINS_PATH \o Parts(clean_path))
         IN  IF RelativeTo(target, Resolve(f, PLUGINS_PATH)).ok
             THEN [ok |-> TRUE, path |-> target, code |-> 200, detail |-> ""]
             ELSE [ok |-> FALSE, path |-> <<>>, code |-> 400, detail |-> "Invalid path"]

-----------------------------------------------------------------------------
(* list_files *)

\* The loop over target.iterdir(), in the order `order` the operating system
\* enumerates the children: item.stat() follows links and raises on a dangling
\* one, which ends the loop.  A size of -1 stands for None.
RECURSIVE BuildItems(_, _, _)
BuildItems(f, order, items) ==
    IF order = <<>> THEN [ok |-> TRUE, items |-> items]
    ELSE LET item == Head(order)
             real == Resolve(f, item)
         IN  IF ~Exists(f, item) THEN [ok |-> FALSE, items |-> items]
             ELSE BuildItems(f, Tail(order),
                     Append(items,
                        [name |-> item[Len(item)],
                         type |-> IF IsDir(f, item) THEN "folder" ELSE "file",
                         size |-> IF IsFile(f, item) THEN Len(f[real].data) ELSE -1]))

\* The sort key: (0 if folder else 1, name.lower()).
SortKey(x) == <<IF x.type = "folder" THEN 0 ELSE 1, Lower(x.name)>>

\* Python's tuple comparison k1 < k2.
KeyLess(k1, k2) == k1[1] < k2[1] \/ (k1[1] = k2[1] /\ StrLess(k1[2], k2[2]))

\* list.sort(key=...): a stable sort; equal keys keep their incoming order.
RECURSIVE InsertStable(_, _)
InsertStable(sorted, x) ==
    IF sorted = <<>> THEN <<x>>
    ELSE IF KeyLess(SortKey(x), SortKey(Head(sorted))) THEN <<x>> \o sorted
    ELSE <<Head(sorted)>> \o InsertStable(Tail(sorted), x)

RECURSIVE SortItems(_)
SortItems(items) ==
    IF items = <<>> THEN <<>>
    ELSE InsertStable(SortItems(SubSeq(items, 1, Len(items) - 1)), items[Len(items)])

Breadcrumbs(parts) ==
    [i \in 1..Len(parts) |-> [name |-> parts[i], path |-> Join(SubSeq(parts, 1, i))]]

\* The orders in which iterdir() may yield the children of d.
Enumerations(f, d) ==
    LET kids == Children(f, d)
        n == Cardinality(kids)
    IN  {o \in [1..n -> kids] : \A i, j \in 1..n : i # j => o[i] # o[j]}

list_files(f, path, order) ==
    LET sp == safe_path(f, path)
        target == sp.path
        built == BuildItems(f, order, <<>>)
        rel_path == RelativeTo(target, Resolve(f, PLUGINS_PATH)).parts
    IN  IF ~sp.ok THEN HTTPError("list", sp.code, sp.detail)
        ELSE IF target \notin DOMAIN f THEN HTTPError("list", 404, "Directory not found")
        ELSE IF f[target].kind # "dir" THEN HTTPError("list", 400, "Not a directory")
        ELSE IF ~built.ok THEN HTTPError("list", 500, "FileNotFoundError")
        ELSE OK("list",
                [kind |-> "list", path |-> Join(rel_path),
                 breadcrumbs |-> Breadcrumbs(rel_path),
                 items |-> SortItems(built.items)])

-----------------------------------------------------------------------------
(* upload_file, create_folder, delete_item *)

\* str.startswith(".")
StartsWithDot(s) == s # <<>> /\ Head(s) = "."

\* Path.write_bytes(content): open(file_path, "wb") follows a symbolic link at
\* file_path, truncates an existing regular file, creates a missing one in an
\* existing directory, and raises OSError otherwise.
write_bytes(f, file_path, content) ==
    LET real == Resolve(f, file_path)
    IN  IF real \in DOMAIN f
        THEN IF f[real].kind = "file"
             THEN [ok |-> TRUE, fs |-> PutPath(f, real, File(content))]
             ELSE [ok |-> FALSE, fs |-> f]
        ELSE IF real # <<>> /\ Parent(real) \in DOMAIN f /\ f[Parent(real)].kind = "dir"
             THEN [ok |-> TRUE, fs |-> PutPath(f, real, File(content))]
             ELSE [ok |-> FALSE, fs |-> f]

upload_file(f, filename, path, content) ==
    LET sp == safe_path(f, path)
        target_dir == sp.path
        safe_name == PathName(filename)
        file_path == Append(target_dir, safe_name)
        w == write_bytes(f, file_path, content)
    IN  IF filename = <<>>
        THEN [fs |-> f, resp |-> HTTPError("upload", 400, "No filename provided")]
        ELSE IF ~sp.ok
        THEN [fs |-> f, resp |-> HTTPError("upload", sp.code, sp.detail)]
        ELSE IF target_dir \notin DOMAIN f
        THEN [fs |-> f, resp |-> HTTPError("upload", 404, "Directory not found")]
        ELSE IF f[target_dir].kind # "dir"
        THEN [fs |-> f, resp |-> HTTPError("upload", 400, "Not a directory")]
        ELSE IF safe_name = <<>> \/ StartsWithDot(safe_name)
        THEN [fs |-> f, resp |-> HTTPError("upload", 400, "Invalid filename")]
        ELSE IF ~w.ok
        THEN [fs |-> f, resp |-> HTTPError("upload", 500, "OSError")]
        ELSE [fs |-> w.fs,
              resp |-> OK("upload",
                          [kind |-> "upload", filename |-> safe_name, size |-> Len(content)])]

\* Path.mkdir(): os.mkdir does not follow a link at the new name and raises
\* when any entry has that name or the parent is not a directory.
mkdir(f, new_folder) ==
    IF new_folder \notin DOMAIN f /\ Parent(new_folder) \in DOMAIN f
       /\ f[Parent(new_folder)].kind = "dir"
    THEN [ok |-> TRUE, fs |-> PutPath(f, new_folder, Dir)]
    ELSE [ok |-> FALSE, fs |-> f]

\* create_folder without its `if new_folder.exists()` test: a taken name is
\* left to os.mkdir, whose FileExistsError becomes a 500.
create_folder_unchecked(f, name, path) ==
    LET sp == safe_path(f, path)
        target_dir == sp.path
        safe_name == PathName(name)
        new_folder == Append(target_dir, safe_name)
        m == mkdir(f, new_folder)
    IN  IF ~sp.ok
        THEN [fs |-> f, resp |-> HTTPError("mkdir", sp.code, sp.detail)]
        ELSE IF target_dir \notin DOMAIN f
        THEN [fs |-> f, resp |-> HTTPError("mkdir", 404, "Parent directory not found")]
        ELSE IF safe_name = <<>> \/ StartsWithDot(safe_name)
        THEN [fs |-> f, resp |-> HTTPError("mkdir", 400, "Invalid folder name")]
        ELSE IF ~m.ok
        THEN [fs |-> f, resp |-> HTTPError("mkdir", 500, "OSError")]
        ELSE [fs |-> m.fs,
              resp |-> OK("mkdir", [kind |-> "mkdir", folder |-> safe_name])]

create_folder(f, name, path) ==
    LET sp == safe_path(f, path)
        target_dir == sp.path
        safe_name == PathName(name)
        new_folder == Append(target_dir, safe_name)
        m == mkdir(f, new_folder)
    IN  IF ~sp.ok
        THEN [fs |-> f, resp |-> HTTPError("mkdir", sp.code, sp.detail)]
        ELSE IF target_dir \notin DOMAIN f
        THEN [fs |-> f, resp |-> HTTPError("mkdir", 404, "Parent directory not found")]
        ELSE IF safe_name = <<>> \/ StartsWithDot(safe_name)
        THEN [fs |-> f, resp |-> HTTPError("mkdir", 400, "Invalid folder name")]
        ELSE IF Exists(f, new_folder)
        THEN [fs |-> f, resp |-> HTTPError("mkdir", 400, "Folder already exists")]
        ELSE IF ~m.ok
        THEN [fs |-> f, resp |-> HTTPError("mkdir", 500, "OSError")]
        ELSE [fs |-> m.fs,
              resp |-> OK("mkdir", [kind |-> "mkdir", folder |-> safe_name])]

\* A half-built recursive delete: the files of a non-empty folder are removed
\* before the folder is refused.
remove_entry_clearing_files(f, target) ==
    IF IsFile(f, target) THEN [ok |-> TRUE, fs |-> RemovePath(f, target)]
    ELSE IF IsDir(f, target)
    THEN IF Children(f, target) # {}
         THEN [ok |-> FALSE,
               fs |-> [q \in DOMAIN f \ {c \in Children(f, target) : f[c].kind = "file"} |-> f[q]]]
         ELSE [ok |-> TRUE, fs |-> RemovePath(f, target)]
    ELSE [ok |-> TRUE, fs |-> f]

\* A recursive delete: shutil.rmtree in place of rmdir.
remove_entry_rmtree(f, target) ==
    IF IsFile(f, target) THEN [ok |-> TRUE, fs |-> RemovePath(f, target)]
    ELSE IF IsDir(f, target)
    THEN [ok |-> TRUE, fs |-> [q \in {x \in DOMAIN f : ~IsPrefix(target, x)} |-> f[q]]]
    ELSE [ok |-> TRUE, fs |-> f]

\* The try block of delete_item: unlink a file; rmdir a directory once
\* any(target.iterdir()) is false, else raise 400 "Folder is not empty".
remove_entry(f, target) ==
    IF IsFile(f, target) THEN [ok |-> TRUE, fs |-> RemovePath(f, target)]
    ELSE IF IsDir(f, target)
    THEN IF Children(f, target) # {}
         THEN [ok |-> FALSE, fs |-> f]
         ELSE [ok |-> TRUE, fs |-> RemovePath(f, target)]
    ELSE [ok |-> TRUE, fs |-> f]

delete_item(f, path) ==
    LET sp == safe_path(f, path)
        target == sp.path
        rm == remove_entry(f, target)
    IN  IF path = <<>>
        THEN [fs |-> f, resp |-> HTTPError("delete", 400, "Path required")]
        ELSE IF ~sp.ok
        THEN [fs |-> f, resp |-> HTTPError("delete", sp.code, sp.detail)]
        ELSE IF target \notin DOMAIN f
        THEN [fs |-> f, resp |-> HTTPError("delete", 404, "Item not found")]
        ELSE IF Resolve(f, target) = Resolve(f, PLUGINS_PATH)
        THEN [fs |-> f, resp |-> HTTPError("delete", 400, "Cannot delete root directory")]
        ELSE IF ~rm.ok
        THEN [fs |-> rm.fs, resp |-> HTTPError("delete", 400, "Folder is not empty")]
        ELSE [fs |-> rm.fs,
              resp |-> OK("delete", [kind |-> "delete", deleted |-> path])]

-----------------------------------------------------------------------------
(* The file service as a state machine. *)

\* What every start state holds: "/", the root /a, and beside it the
\* directory /A with one file /A/a.
BaseFS ==
    (<<>> :> Dir) @@ (PLUGINS_PATH :> Dir) @@ (OutsidePath :> Dir)
    @@ (Append(OutsidePath, <<"a">>) :> File(Secret))

\* Where a symbolic link /a/A found under the root at start-up may point:
\* a file outside, a directory outside, a missing name outside, a missing
\* name inside, the root itself.
LinkTargets ==
    {Append(OutsidePath, <<"a">>), OutsidePath, Append(OutsidePath, <<"A">>),
     Append(PLUGINS_PATH, <<"a">>), PLUGINS_PATH}

InitialFileSystems ==
    {BaseFS} \cup {PutPath(BaseFS, Append(PLUGINS_PATH, <<"A">>), Link(t)) : t \in LinkTargets}

UnderRoot(f) == {p \in DOMAIN f : IsPrefix(PLUGINS_PATH, p) /\ p # PLUGINS_PATH}

HasRoom(f) == Cardinality(UnderRoot(f)) <= MaxEntries

InitFileService ==
    /\ fs \in InitialFileSystems
    /\ before = fs
    /\ resp = NoResponse

Idle == resp.op = "none"

List ==
    /\ Idle
    /\ \E path \in PathInputs :
         LET sp == safe_path(fs, path)
             orders == IF sp.ok /\ sp.path \in DOMAIN fs
                       THEN Enumerations(fs, sp.path) ELSE {<<>>}
         IN  \E order \in orders : resp' = list_files(fs, path, order)
    /\ before' = fs
    /\ UNCHANGED <<fs, cvars>>

Upload ==
    /\ Idle
    /\ \E path \in PathInputs, filename \in NameInputs, content \in Contents :
         LET r == upload_file(fs, filename, path, content)
         IN  /\ HasRoom(r.fs)
             /\ fs' = r.fs
             /\ resp' = r.resp
    /\ before' = fs
    /\ UNCHANGED cvars

CreateFolder ==
    /\ Idle
    /\ \E path \in PathInputs, name \in NameInputs :
         LET r == create_folder(fs, name, path)
         IN  /\ HasRoom(r.fs)
             /\ fs' = r.fs
             /\ resp' = r.resp
    /\ before' = fs
    /\ UNCHANGED cvars

Delete ==
    /\ Idle
    /\ \E path \in PathInputs :
         LET r == delete_item(fs, path)
         IN  /\ fs' = r.fs
             /\ resp' = r.resp
    /\ before' = fs
    /\ UNCHANGED cvars

\* The response is sent; the service waits for the next request.
Respond ==
    /\ ~Idle
    /\ resp' = NoResponse
    /\ before' = fs
    /\ UNCHANGED <<fs, cvars>>

-----------------------------------------------------------------------------
(* The Unraid GraphQL client.  A JSON value is a tagged record; a JSON      *)
(* object is a function from its keys, and a key it lacks is outside the    *)
(* function's domain.                                                       *)

JNull == [t |-> "null", v |-> <<>>]
JObj(f) == [t |-> "obj", v |-> f]
JList(s) == [t |-> "list", v |-> s]
JStr(x) == [t |-> "str", v |-> x]
EmptyObj == JObj(<<>>)

\* dict.get(key, default) on a value known to be a dict.
Get(obj, key, default) == IF key \in DOMAIN obj.v THEN obj.v[key] ELSE default

\* The configured container name (MINECRAFT_CONTAINER).
MINECRAFT_CONTAINER == <<"m", "c">>

NoReturn == [kind |-> "none", value |-> FALSE, name |-> <<>>, state |-> "", exc |-> ""]
Raised(e) == [kind |-> "raised", value |-> FALSE, name |-> <<>>, state |-> "", exc |-> e]
Bool(b) == [kind |-> "bool", value |-> b, name |-> <<>>, state |-> "", exc |-> ""]
Absent == [kind |-> "absent", value |-> FALSE, name |-> <<>>, state |-> "", exc |-> ""]
ContainerStatus(n, st) == [kind |-> "status", value |-> FALSE, name |-> n, state |-> st, exc |-> ""]

\* What the remote does with one POST: no response before the timeout
\* (http = 0), or a response with a status code and a JSON body.
NoReply == [http |-> -1, json |-> JNull]
Reply(code, body) == [http |-> code, json |-> body]

\* _query: raises on a transport error and on a 4xx/5xx status
\* (raise_for_status), otherwise returns the decoded body.
_query(reply) ==
    IF reply.http = 0 THEN Raised("TransportError")
    ELSE IF reply.http >= 400 THEN Raised("HTTPStatusError")
    ELSE [kind |-> "json", value |-> FALSE, name |-> <<>>, state |-> "", exc |-> "",
          json |-> reply.json]

\* The loop of get_container_status over the listed containers.
RECURSIVE ScanContainers(_, _)
ScanContainers(container_name, containers) ==
    IF containers = <<>> THEN Absent
    ELSE LET container == Head(containers)
             names == Get(container, "names", JList(<<>>))
             state == Get(container, "state", JStr("UNKNOWN"))
         IN  IF container.t # "obj" THEN Raised("AttributeError")
             ELSE IF names.t # "list" THEN Raised("TypeError")
             ELSE IF \E i \in 1..Len(names.v) :
                        names.v[i] = <<"/">> \o container_name \/ names.v[i] = container_name
             THEN ContainerStatus(container_name, IF state.t = "str" THEN state.v ELSE "None")
             ELSE ScanContainers(container_name, Tail(containers))

\* get_container_status, given what the remote answers to its read query.
get_container_status(container_name, reply) ==
    LET q == _query(reply)
        result == q.json
        data == Get(result, "data", EmptyObj)
        docker == Get(data, "docker", EmptyObj)
        containers == Get(docker, "containers", JList(<<>>))
    IN  IF q.kind = "raised" THEN q
        ELSE IF result.t # "obj" THEN Raised("AttributeError")
        ELSE IF data.t # "obj" THEN Raised("AttributeError")
        ELSE IF docker.t # "obj" THEN Raised("AttributeError")
        ELSE IF containers.t # "list" THEN Raised("TypeError")
        ELSE ScanContainers(container_name, containers.v)

\* The mutation awaited without the try block: its exception leaves the caller.
PropagateMutation(q) == IF q.kind = "raised" THEN q ELSE NoReturn

\* try: await self._query(mutation) / except Exception: pass
\* What the mutation call lets out of the try block: nothing.
SwallowMutation(q) == NoReturn

\* return status is not None and status.state == "RUNNING" (resp. "EXITED"),
\* or the exception the status read raised.
Verify(status, wanted) ==
    IF status.kind = "raised" THEN status
    ELSE Bool(status.kind = "status" /\ status.state = wanted)

-----------------------------------------------------------------------------
(* The remote's possible answers. *)

ContainerJ(names, state) == JObj(("names" :> JList(names)) @@ ("state" :> JStr(state)))
Listing(cs) == JObj("data" :> JObj("docker" :> JObj("containers" :> JList(cs))))
ErrorsJ == JList(<<JObj("message" :> JStr("Internal server error"))>>)

Slashed == <<"/">> \o MINECRAFT_CONTAINER
Other == <<"/", "d", "b">>

\* Answers to the read query { docker { containers { names state } } }.
ReadReplies ==
    { Reply(0, JNull),
      Reply(500, JNull),
      Reply(200, Listing(<<>>)),
      Reply(200, Listing(<<ContainerJ(<<Slashed>>, "RUNNING")>>)),
      Reply(200, Listing(<<ContainerJ(<<MINECRAFT_CONTAINER>>, "EXITED")>>)),
      Reply(200, Listing(<<ContainerJ(<<Other>>, "RUNNING"), ContainerJ(<<Slashed>>, "EXITED")>>)),
      Reply(200, Listing(<<ContainerJ(<<Other>>, "RUNNING")>>)),
      Reply(200, Listing(<<JObj("names" :> JList(<<Slashed>>))>>)),
      Reply(200, JObj("errors" :> ErrorsJ)),
      Reply(200, JObj(("errors" :> ErrorsJ) @@ ("data" :> JNull))) }

\* Answers to a start or stop mutation: none, a 5xx, the well-formed
\* top-level error the remote sends for a start that worked, a plain result.
MutationReplies ==
    { Reply(0, JNull),
      Reply(500, JNull),
      Reply(200, JObj(("errors" :> ErrorsJ) @@ ("data" :> JNull))),
      Reply(200, JObj("data" :> JObj("docker" :> JObj("start" :> JObj("names" :> JList(<<Slashed>>)))))) }

-----------------------------------------------------------------------------
(* The client as a state machine: one step per awaited remote call. *)

Operations == {"status", "start", "stop", "restart"}

FirstStep(o) ==
    CASE o = "status" -> "status_read"
      [] o = "start" -> "start_mutation"
      [] o = "stop" -> "stop_mutation"
      [] o = "restart" -> "stop_mutation"

ClientIdle ==
    /\ call = "none"
    /\ pc = "idle"
    /\ log = <<>>
    /\ mutation = NoReply
    /\ read = NoReply
    /\ stopped = NoReturn
    /\ ret = NoReturn

\* restart_container's `await self.stop_container(container_name)`: the value
\* is dropped, an exception leaves restart_container.
AfterStop(r) ==
    IF r.kind = "raised" THEN [pc |-> "done", ret |-> r, stopped |-> r]
    ELSE [pc |-> "sleep", ret |-> NoReturn, stopped |-> r]

Invoke ==
    /\ pc = "idle"
    /\ \E o \in Operations :
         /\ call' = o
         /\ pc' = FirstStep(o)
    /\ UNCHANGED <<log, mutation, read, stopped, ret, fvars>>

\* get_container_status called on its own (GET /api/status).
StatusRead ==
    /\ pc = "status_read"
    /\ \E reply \in ReadReplies :
         /\ read' = reply
         /\ ret' = get_container_status(MINECRAFT_CONTAINER, reply)
    /\ log' = Append(log, "read")
    /\ pc' = "done"
    /\ UNCHANGED <<call, mutation, stopped, fvars>>

\* stop_container, up to its status read.
StopMutation ==
    /\ pc = "stop_mutation"
    /\ \E reply \in MutationReplies :
         LET out == SwallowMutation(_query(reply))
         IN  /\ mutation' = reply
             /\ IF out.kind = "raised"
                THEN pc' = "done" /\ ret' = out
                ELSE pc' = "stop_read" /\ ret' = ret
    /\ log' = Append(log, "stop_mutation")
    /\ UNCHANGED <<call, read, stopped, fvars>>

\* stop_container's status read and return.
StopRead ==
    /\ pc = "stop_read"
    /\ \E reply \in ReadReplies :
         LET r == Verify(get_container_status(MINECRAFT_CONTAINER, reply), "EXITED")
         IN  /\ read' = reply
             /\ IF call = "restart"
                THEN /\ pc' = AfterStop(r).pc
                     /\ ret' = AfterStop(r).ret
                     /\ stopped' = AfterStop(r).stopped
                ELSE /\ pc' = "done"
                     /\ ret' = r
                     /\ stopped' = stopped
    /\ log' = Append(log, "read")
    /\ UNCHANGED <<call, mutation, fvars>>

\* restart_container's asyncio.sleep(2).
Sleep ==
    /\ pc = "sleep"
    /\ log' = Append(log, "sleep")
    /\ pc' = "start_mutation"
    /\ UNCHANGED <<call, mutation, read, stopped, ret, fvars>>

\* start_container, up to its status read.
StartMutation ==
    /\ pc = "start_mutation"
    /\ \E reply \in MutationReplies :
         LET out == SwallowMutation(_query(reply))
         IN  /\ mutation' = reply
             /\ IF out.kind = "raised"
                THEN pc' = "done" /\ ret' = out
                ELSE pc' = "start_read" /\ ret' = ret
    /\ log' = Append(log, "start_mutation")
    /\ UNCHANGED <<call, read, stopped, fvars>>

\* start_container's status read and return; restart_container returns it.
StartRead ==
    /\ pc = "start_read"
    /\ \E reply \in ReadReplies :
         /\ read' = reply
         /\ ret' = Verify(get_container_status(MINECRAFT_CONTAINER, reply), "RUNNING")
    /\ log' = Append(log, "read")
    /\ pc' = "done"
    /\ UNCHANGED <<call, mutation, stopped, fvars>>

\* The operation's result is handed to the endpoint; the client is idle again.
Return ==
    /\ pc = "done"
    /\ call' = "none"
    /\ pc' = "idle"
    /\ log' = <<>>
    /\ mutation' = NoReply
    /\ read' = NoReply
    /\ stopped' = NoReturn
    /\ ret' = NoReturn
    /\ UNCHANGED fvars

-----------------------------------------------------------------------------
(* Specifications. *)

InitFiles == InitFileService /\ ClientIdle

NextFiles == List \/ Upload \/ CreateFolder \/ Delete \/ Respond

\* The file service.
SpecFiles == InitFiles /\ [][NextFiles]_vars

InitPlainFiles == fs = BaseFS /\ before = fs /\ resp = NoResponse /\ ClientIdle

\* The file service over a root that holds no symbolic link.
SpecPlainFiles == InitPlainFiles /\ [][NextFiles]_vars

InitControl == fs = BaseFS /\ before = fs /\ resp = NoResponse /\ ClientIdle

NextControl ==
    \/ Invoke
    \/ StatusRead
    \/ StopMutation
    \/ StopRead
    \/ Sleep
    \/ StartMutation
    \/ StartRead
    \/ Return

\* The container client.
SpecControl == InitControl /\ [][NextControl]_vars

-----------------------------------------------------------------------------
(* Properties of the file service (SpecFiles). *)

\* The root or a descendant of it.
Confined(p) == \E k \in 0..Len(p) : SubSeq(p, 1, k) = PLUGINS_PATH

\* The input with leading separators stripped, joined to the root, resolved.
ResolvedInput(f, s) == Resolve(f, PLUGINS_PATH \o Parts(LStrip(s)))

\* C1: whatever the start state (symbolic links under the root that point
\* outside included) and whatever list, upload, createFolder and delete calls
\* were made, no entry outside the root was created, overwritten or removed:
\* everything outside the root is as it was at the start.
C1_RootConfinement ==
    \A p \in DOMAIN fs \cup DOMAIN BaseFS :
        ~Confined(p) => p \in DOMAIN fs /\ p \in DOMAIN BaseFS /\ fs[p] = BaseFS[p]

\* C2: safe_path fails with 400 "Invalid path" exactly when the stripped,
\* joined and resolved input is neither the root nor below it; otherwise it
\* returns that resolved path; the empty input gives the root.
C2_SafePathIsConfinement ==
    \A s \in PathInputs :
        LET r == safe_path(fs, s)
            t == ResolvedInput(fs, s)
        IN  /\ ~r.ok <=> ~Confined(t)
            /\ ~r.ok => r.code = 400 /\ r.detail = "Invalid path"
            /\ r.ok => r.path = t /\ Confined(r.path)
            /\ s = <<>> => r.ok /\ r.path = PLUGINS_PATH

\* A request was refused for its path while a symbolic link lies under the root.
C2_Witness ==
    /\ resp.code = 400
    /\ resp.detail = "Invalid path"
    /\ \E p \in DOMAIN fs : fs[p].kind = "link"

\* The 400 details that report InvalidPath, InvalidFilename, NotADirectory,
\* NotEmpty and AlreadyExists (and the refusals of delete's empty and root path).
ValidationDetails ==
    {"Invalid path", "No filename provided", "Invalid filename", "Invalid folder name",
     "Not a directory", "Folder is not empty", "Folder already exists",
     "Path required", "Cannot delete root directory"}

\* C5: when upload, createFolder or delete fails with a validation error, the
\* error is a 4xx and the filesystem is what it was before the call.
C5_ValidationLeavesNoPartialState ==
    (resp.op \in {"upload", "mkdir", "delete"} /\ resp.detail \in ValidationDetails)
        => (fs = before /\ resp.code >= 400 /\ resp.code <= 499)

\* A delete was refused because the folder still has children.
C5_Witness ==
    /\ resp.op = "delete"
    /\ resp.detail = "Folder is not empty"
    /\ resp.code = 400

\* C6: a delete removes at most one entry, a file or a childless directory
\* other than the root; the empty path and every path that resolves to the
\* root are refused; a directory (below the root) holding one file is refused with NotEmpty
\* and nothing changes, and the same delete succeeds once that file was deleted.
C6_DeleteIsNonRecursive ==
    \A path \in PathInputs :
        LET r == delete_item(fs, path)
            sp == safe_path(fs, path)
        IN  /\ \/ r.fs = fs
               \/ \E p \in DOMAIN fs :
                    /\ p # PLUGINS_PATH
                    /\ r.fs = RemovePath(fs, p)
                    /\ \/ fs[p].kind = "file"
                       \/ fs[p].kind = "dir" /\ Children(fs, p) = {}
            /\ (path = <<>> \/ (sp.ok /\ sp.path = PLUGINS_PATH)) =>
                  r.fs = fs /\ r.resp.code = 400
            /\ \A c \in DOMAIN fs :
                 (sp.ok /\ sp.path \in DOMAIN fs /\ fs[sp.path].kind = "dir"
                   /\ sp.path # PLUGINS_PATH
                   /\ Children(fs, sp.path) = {c} /\ fs[c].kind = "file") =>
                     /\ r.fs = fs
                     /\ r.resp.code = 400 /\ r.resp.detail = "Folder is not empty"
                     /\ \A cp \in PathInputs :
                          (safe_path(fs, cp).ok /\ safe_path(fs, cp).path = c) =>
                             /\ delete_item(fs, cp).resp.code = 200
                             /\ delete_item(fs, cp).fs = RemovePath(fs, c)
                             /\ delete_item(delete_item(fs, cp).fs, path).resp.code = 200
                             /\ delete_item(delete_item(fs, cp).fs, path).fs
                                   = RemovePath(RemovePath(fs, c), sp.path)

\* The only file of a directory below the root has just been deleted.
C6_Witness ==
    /\ resp.op = "delete"
    /\ resp.code = 200
    /\ \E d, c \in DOMAIN before :
         /\ Confined(d) /\ d # PLUGINS_PATH /\ before[d].kind = "dir"
         /\ Children(before, d) = {c} /\ before[c].kind = "file"
         /\ fs = RemovePath(before, c)

\* The directory a list response describes.
Listed == safe_path(fs, resp.body.path).path

Precedes(x, y) ==
    \/ x.type = "folder" /\ y.type = "file"
    \/ x.type = y.type /\ StrLess(Lower(x.name), Lower(y.name))

\* C7: list returns the children folders first and, within each kind, in
\* ascending case-insensitive name order, and the sequence is the same for
\* every order in which the filesystem enumerates the children, also when two
\* names differ only by letter case.
C7_ListOrderIsDeterministic ==
    (resp.op = "list" /\ resp.code = 200) =>
        /\ \A i, j \in 1..Len(resp.body.items) :
             i < j => ~Precedes(resp.body.items[j], resp.body.items[i])
        /\ \A o \in Enumerations(fs, Listed) :
             list_files(fs, resp.body.path, o).body.items = resp.body.items

\* C8: upload changes or creates only the entry named by the filename's final
\* component in the resolved target directory, that entry then holds the
\* uploaded bytes (an existing file is overwritten), the response carries
\* that name and the byte count, and a filename that is empty or dot-prefixed
\* after sanitization is refused with InvalidFilename.
C8_UploadStoresUnderFinalComponent ==
    resp.op = "upload" =>
        \A path \in PathInputs, filename \in NameInputs, content \in Contents :
            LET sp == safe_path(before, path)
                name == PathName(filename)
                dest == Append(sp.path, name)
            IN  (sp.ok /\ sp.path \in DOMAIN before /\ before[sp.path].kind = "dir"
                  /\ upload_file(before, filename, path, content) = [fs |-> fs, resp |-> resp]) =>
                  /\ (name = <<>> \/ StartsWithDot(name)) =>
                        /\ fs = before
                        /\ resp.code = 400
                        /\ resp.detail \in {"Invalid filename", "No filename provided"}
                  /\ \A q \in DOMAIN before \cup DOMAIN fs :
                        q # dest => q \in DOMAIN before /\ q \in DOMAIN fs /\ fs[q] = before[q]
                  /\ resp.code = 200 =>
                        /\ dest \in DOMAIN fs
                        /\ fs[dest] = File(content)
                        /\ resp.body.filename = name
                        /\ resp.body.size = Len(content)

\* Python's view of an entry as file or folder (links followed).
FileOrFolder(f, p) == IsFile(f, p) \/ IsDir(f, p)

\* C9: a createFolder that succeeds adds exactly one empty directory under
\* the resolved parent, and the same call made again at once fails with 400
\* AlreadyExists and changes nothing; createFolder fails with AlreadyExists
\* whenever a file or folder of the sanitized name is in the parent, and with
\* 404 NotFound when the parent is absent.
C9_CreateFolderTwice ==
    Idle =>
    \A path \in PathInputs, name \in NameInputs :
        LET r == create_folder(fs, name, path)
            sp == safe_path(fs, path)
            safe_name == PathName(name)
            dest == Append(sp.path, safe_name)
            again == create_folder(r.fs, name, path)
        IN  /\ r.resp.code = 200 =>
                 /\ sp.ok /\ sp.path \in DOMAIN fs
                 /\ dest \notin DOMAIN fs
                 /\ r.fs = PutPath(fs, dest, Dir)
                 /\ r.resp.body.folder = safe_name
                 /\ again.resp.code = 400
                 /\ again.resp.detail = "Folder already exists"
                 /\ again.fs = r.fs
            /\ (sp.ok /\ sp.path \in DOMAIN fs /\ safe_name # <<>> /\ ~StartsWithDot(safe_name)
                  /\ FileOrFolder(fs, dest)) =>
                 /\ r.resp.code = 400
                 /\ r.resp.detail = "Folder already exists"
                 /\ r.fs = fs
            /\ (sp.ok /\ sp.path \notin DOMAIN fs) =>
                 /\ r.resp.code = 404
                 /\ r.fs = fs

\* A createFolder was refused because the name is taken.
C9_Witness ==
    /\ resp.op = "mkdir"
    /\ resp.code = 400
    /\ resp.detail = "Folder already exists"

-----------------------------------------------------------------------------
(* Properties of the container client (SpecControl). *)

Finished(o) == call = o /\ pc = "done"

\* What the latest status read gave get_container_status.
ReadStatus == get_container_status(MINECRAFT_CONTAINER, read)

\* C3: restart always invokes stop, then waits, then invokes start, and
\* returns exactly start's result, whatever stop's outcome was (true, false,
\* or a transport error in its mutation or in its verification read).
C3_RestartAlwaysStarts ==
    Finished("restart") =>
        /\ log = <<"stop_mutation", "read", "sleep", "start_mutation", "read">>
        /\ ret = Verify(ReadStatus, "RUNNING")

\* C4: start (resp. stop) makes exactly one mutation call and then exactly one
\* status read; whenever that read completes the result is true iff the read
\* shows the container present in state RUNNING (resp. EXITED), whether or
\* not the mutation call raised, and a mutation error never reaches the caller.
C4_SwallowThenVerify ==
    /\ Finished("start") =>
         /\ log = <<"start_mutation", "read">>
         /\ ReadStatus.kind # "raised" =>
              ret = Bool(ReadStatus.kind = "status" /\ ReadStatus.state = "RUNNING")
         /\ ret.kind = "raised" => ReadStatus.kind = "raised"
    /\ Finished("stop") =>
         /\ log = <<"stop_mutation", "read">>
         /\ ReadStatus.kind # "raised" =>
              ret = Bool(ReadStatus.kind = "status" /\ ReadStatus.state = "EXITED")
         /\ ret.kind = "raised" => ReadStatus.kind = "raised"

\* A start whose mutation call raised and whose read found the container RUNNING.
C4_Witness ==
    /\ Finished("start")
    /\ _query(mutation).kind = "raised"
    /\ ret = Bool(TRUE)

\* The containers a well-formed body lists, <<>> when it carries none.
ListedContainers(body) ==
    IF body.t = "obj" /\ "data" \in DOMAIN body.v /\ body.v["data"].t = "obj"
       /\ "docker" \in DOMAIN body.v["data"].v /\ body.v["data"].v["docker"].t = "obj"
       /\ "containers" \in DOMAIN body.v["data"].v["docker"].v
       /\ body.v["data"].v["docker"].v["containers"].t = "list"
    THEN body.v["data"].v["docker"].v["containers"].v
    ELSE <<>>

NamesOf(c) ==
    IF c.t = "obj" /\ "names" \in DOMAIN c.v /\ c.v["names"].t = "list"
    THEN {c.v["names"].v[i] : i \in 1..Len(c.v["names"].v)}
    ELSE {}

Named(body, n) ==
    {i \in 1..Len(ListedContainers(body)) :
        NamesOf(ListedContainers(body)[i]) \cap {n, <<"/">> \o n} # {}}

\* C10: getStatus returns {name, state} of a container whose name list holds
\* the name or "/" + name, absent when no listed container matches, and
\* raises only on transport/HTTP-level errors: every well-formed HTTP-200
\* body, also one with a top-level error and no container data, yields a
\* status or absent.
C10_StatusRaisesOnlyOnTransportErrors ==
    (Finished("status") /\ read.http = 200) =>
        /\ ret.kind \in {"status", "absent"}
        /\ ret.kind = "absent" <=> Named(read.json, MINECRAFT_CONTAINER) = {}
        /\ ret.kind = "status" =>
             /\ ret.name = MINECRAFT_CONTAINER
             /\ \E i \in Named(read.json, MINECRAFT_CONTAINER) :
                  ret.state = Get(ListedContainers(read.json)[i], "state", JStr("UNKNOWN")).v

====
